---- MODULE Spec2Model ----
(***************************************************************************)
(* Product-Importer: the product table and its write paths (model save,    *)
(* serializer create/update, admin form, delete, delete_all), the          *)
(* post_save webhook hook, the CSV ingestion task with its progress cache, *)
(* the webhook table, the webhook delivery task and the progress query.    *)
(*                                                                         *)
(* Strings are sequences of one-character strings, so that lower() and     *)
(* strip() are computed, not assumed.                                      *)
(***************************************************************************)
EXTENDS Integers, Sequences, FiniteSets, TLC

VARIABLES
    products,     \* rows of table "products"
    nextId,       \* next auto-increment primary key of "products"
    clock,        \* logical time of timezone.now()
    webhooks,     \* rows of table "webhooks"
    nextWebhookId, \* next auto-increment primary key of "webhooks"
    task_serializer, \* how the task queue serialises a job's arguments
    submitted,    \* delivery jobs handed to the task queue by the last save
    response,     \* outcome of the last request / call
    extOps,       \* number of requests served so far (bounded by MaxOps)
    file,         \* the CSV file the ingestion job was submitted with
    onDisk,       \* whether the file still exists at file_path
    pc,           \* position of import_products_task
    taskState,    \* the job's state in the task queue's result backend
    cache,        \* cache entry import_progress_<task_id>: <<>> when absent, else <<value>>
    progressLog,  \* every value written to that cache entry, in order
    row_count,    \* import_products_task.row_count
    processed,    \* import_products_task.processed
    results,      \* import_products_task.results / the value the task returned
    chunk,        \* locals of _process_chunk between its storage accesses
    statusResp,   \* the last answer of the upload-status endpoint
    delivery,     \* the webhook delivery job being executed
    cli           \* the polling loop of "manage.py import_csv" (asynchronous mode)

prodVars == <<products, nextId, clock, submitted, response, extOps>>
jobVars == <<file, onDisk, pc, taskState, cache, progressLog, row_count, processed,
             results, chunk>>
cfgVars == <<webhooks, nextWebhookId, task_serializer>>
auxVars == <<statusResp, delivery, cli>>
vars == <<products, nextId, clock, webhooks, nextWebhookId, task_serializer, submitted, response,
          extOps, file, onDisk, pc, taskState, cache, progressLog, row_count,
          processed, results, chunk, statusResp, delivery, cli>>

(***************************************************************************)
(* Bounds                                                                  *)
(***************************************************************************)
\* requests (saves, API calls, admin edits, deletes) in one behaviour
MaxOps == 3
\* data lines of an ingested file
MaxRows == 3
\* requests served while an ingestion job runs
MaxConc == 1
\* rows per chunk; tasks.py sets 1000, scaled down so that a file of MaxRows
\* lines spans more than one chunk
CHUNK_SIZE == 2

(***************************************************************************)
(* Strings                                                                 *)
(***************************************************************************)
None == <<"None">>          \* Python None in a text column

\* str.lower() on one character
LowerChar(c) ==
    CASE c = "A" -> "a"
      [] c = "B" -> "b"
      [] c = "T" -> "t"
      [] c = "R" -> "r"
      [] c = "U" -> "u"
      [] c = "E" -> "e"
      [] c = "C" -> "c"
      [] c = "S" -> "s"
      [] c = "V" -> "v"
      [] OTHER -> c

\* str.lower()
lower(s) == [i \in 1..Len(s) |-> LowerChar(s[i])]

RECURSIVE lstrip(_)
lstrip(s) == IF s # <<>> /\ Head(s) = " " THEN lstrip(Tail(s)) ELSE s

RECURSIVE rstrip(_)
rstrip(s) == IF s # <<>> /\ s[Len(s)] = " " THEN rstrip(SubSeq(s, 1, Len(s) - 1)) ELSE s

\* str.strip()
strip(s) == rstrip(lstrip(s))

\* SKUs as callers type them: mixed case, surrounding whitespace, blank
RawSkus == { <<"A">>, <<" ", "a">>, <<"b", " ">>, <<" ">> }

Names == { <<"n">>, <<"m">> }

(***************************************************************************)
(* Table "products" (models.py) and its storage-level constraint           *)
(***************************************************************************)
\* Product.save: "if self.sku: self.sku = self.sku.lower().strip()"
SaveNormalizeNoStrip(sku) == IF sku # <<>> THEN lower(sku) ELSE sku

SaveNormalizeNoLower(sku) == IF sku # <<>> THEN strip(sku) ELSE sku

SaveNormalize(sku) == IF sku # <<>> THEN strip(lower(sku)) ELSE sku

\* unique=True on Product.sku: an exact (case-sensitive) match with another row
SkuTaken(sku, selfId) == \E p \in products : p.sku = sku /\ p.id # selfId

\* sku__iexact lookup
iexact(a, b) == lower(a) = lower(b)

Row(id) == CHOOSE p \in products : p.id = id

Ids == { p.id : p \in products }

(***************************************************************************)
(* post_save hook (signals.py) and the dispatch service (services.py)      *)
(***************************************************************************)
Iso(t) == [kind |-> "iso8601", t |-> t]            \* datetime.isoformat()
AtomicCtx == [kind |-> "Atomic"]                   \* the object transaction.atomic() returns

EventType(created) == IF created THEN "product.created" ELSE "product.updated"

ActiveWebhooks(event_type) ==
    { w \in webhooks : w.event_type = event_type /\ w.is_active }

\* signals._prepare_webhook_payload
PrepareWebhookPayload(product, event_type) ==
    [event |-> event_type, sku |-> product.sku, name |-> product.name,
     description |-> product.description, active |-> product.active,
     created_at |-> Iso(product.created_at), updated_at |-> Iso(product.updated_at),
     timestamp |-> AtomicCtx]

\* the payload built in WebhookService.trigger_webhook_for_product
ServicePayload(product, event_type, now) ==
    [event |-> event_type, sku |-> product.sku, name |-> product.name,
     description |-> product.description, active |-> product.active,
     created_at |-> Iso(product.created_at), updated_at |-> Iso(product.updated_at),
     timestamp |-> Iso(now)]

\* json.dumps accepts strings, numbers, booleans and None, not a context manager
JsonSerializable(payload) == payload.timestamp.kind = "iso8601"

\* .delay() serialises the job's arguments when it publishes the job; with the
\* JSON serializer a payload that json.dumps refuses makes .delay() raise
Publishable(payload) == task_serializer = "pickle" \/ JsonSerializable(payload)

\* "for webhook in webhooks: trigger_webhook.delay(webhook.url, payload)":
\* the first .delay() that raises ends the loop
DelayAll(hooks, payload) ==
    IF Publishable(payload)
    THEN [jobs |-> { [url |-> w.url, payload |-> payload] : w \in hooks }, raised |-> FALSE]
    ELSE [jobs |-> {}, raised |-> TRUE]

\* instance._skip_webhooks: no code of the repository sets the marker
SkipWebhooks(instance) == FALSE

\* signals.product_post_save
ProductPostSave(instance, created) ==
    LET event_type == EventType(created)
        hooks == ActiveWebhooks(event_type)
    IN  IF SkipWebhooks(instance) \/ hooks = {}
        THEN [jobs |-> {}, raised |-> FALSE]
        ELSE DelayAll(hooks, PrepareWebhookPayload(instance, event_type))

\* WebhookService.trigger_webhook_for_product
TriggerWebhookForProduct(product, created, now) ==
    LET event_type == EventType(created)
        hooks == ActiveWebhooks(event_type)
    IN  IF hooks = {}
        THEN [jobs |-> {}, raised |-> FALSE]
        ELSE DelayAll(hooks, ServicePayload(product, event_type, now))

(***************************************************************************)
(* Single-record saves: Model.save, the serializer, the admin form         *)
(***************************************************************************)
Absent == <<"Absent">>      \* a key the request body does not carry

\* request bodies of the product endpoints (JSON)
ApiData ==
    [sku : RawSkus \cup {Absent}, name : Names \cup {Absent},
     active : {"true", "false", "absent"}]

\* what a request leaves behind: the operation, its outcome, whether a row was
\* written, whether it was an INSERT, the row's id and the sku the caller sent
Resp(op, outcome, saved, created, id, sku) ==
    [op |-> op, outcome |-> outcome, saved |-> saved, created |-> created,
     id |-> id, sku |-> sku]

Reject(op, outcome, id, rawsku) ==
    /\ response' = Resp(op, outcome, FALSE, FALSE, id, rawsku)
    /\ UNCHANGED <<products, nextId, clock, submitted>>

\* Product.save() of a new instance: normalise, INSERT, then post_save
SaveNew(op, rawsku, name, active) ==
    LET sku == SaveNormalize(rawsku)
        now == clock + 1
        row == [id |-> nextId, sku |-> sku, name |-> name, description |-> None,
                active |-> active, created_at |-> now, updated_at |-> now]
        hook == ProductPostSave(row, TRUE)
    IN  IF SkuTaken(sku, 0)
        THEN Reject(op, "IntegrityError", 0, rawsku)
        ELSE /\ products' = products \cup {row}
             /\ nextId' = nextId + 1
             /\ clock' = now
             /\ submitted' = hook.jobs
             /\ response' = Resp(op, IF hook.raised THEN "EncodeError" ELSE "ok",
                                  TRUE, TRUE, row.id, rawsku)

\* Product.save() of a stored instance: normalise, UPDATE, then post_save
SaveExisting(op, p, rawsku, name, active) ==
    LET sku == SaveNormalize(rawsku)
        now == clock + 1
        row == [p EXCEPT !.sku = sku, !.name = name, !.active = active,
                         !.updated_at = now]
        hook == ProductPostSave(row, FALSE)
    IN  IF SkuTaken(sku, p.id)
        THEN Reject(op, "IntegrityError", p.id, rawsku)
        ELSE /\ products' = (products \ {p}) \cup {row}
             /\ clock' = now
             /\ submitted' = hook.jobs
             /\ response' = Resp(op, IF hook.raised THEN "EncodeError" ELSE "ok",
                                  TRUE, FALSE, row.id, rawsku)
             /\ UNCHANGED nextId

\* ProductSerializer.validate_sku; instance is 0 on create
ValidateSku(value, instance) ==
    LET v == IF value # <<>> THEN strip(lower(value)) ELSE value
    IN  IF \E p \in products : iexact(p.sku, v)
        THEN IF instance # 0 /\ lower(Row(instance).sku) = v
             THEN [ok |-> TRUE, value |-> v]
             ELSE [ok |-> FALSE, value |-> v]
        ELSE [ok |-> TRUE, value |-> v]

\* The serializer field for sku: the framework trims the text, refuses a blank
\* one and runs the unique validator the model's unique=True adds
SkuField(value, instance) ==
    LET v == strip(value)
    IN  IF v = <<>> \/ SkuTaken(v, instance)
        THEN [ok |-> FALSE, value |-> v]
        ELSE ValidateSku(v, instance)

\* Product.objects.create(sku=..., name=...)
DirectCreate(rawsku, name) ==
    /\ extOps < MaxOps
    /\ extOps' = extOps + 1
    /\ SaveNew("create", rawsku, name, TRUE)
    /\ UNCHANGED <<cfgVars, jobVars, auxVars>>

\* p = Product.objects.get(...); p.sku = ...; p.name = ...; p.save()
DirectUpdate(id, rawsku, name, active) ==
    /\ extOps < MaxOps
    /\ id \in Ids
    /\ extOps' = extOps + 1
    /\ SaveExisting("save", Row(id), rawsku, name, active)
    /\ UNCHANGED <<cfgVars, jobVars, auxVars>>

\* POST /products/ : ProductSerializer.is_valid, ProductSerializer.create
ApiCreate(data) ==
    /\ extOps < MaxOps
    /\ extOps' = extOps + 1
    /\ IF data.sku = Absent \/ data.name = Absent
       THEN Reject("api_create", "ValidationError:required", 0, data.sku)
       ELSE LET f == SkuField(data.sku, 0)
            IN  IF ~f.ok
                THEN Reject("api_create", "ValidationError:sku", 0, data.sku)
                ELSE SaveNew("api_create", strip(lower(f.value)), data.name,
                             data.active # "false")
    /\ UNCHANGED <<cfgVars, jobVars, auxVars>>

\* PUT / PATCH of one product: ProductSerializer.is_valid, ProductSerializer.update
ApiUpdate(id, data, partial) ==
    /\ extOps < MaxOps
    /\ id \in Ids
    /\ extOps' = extOps + 1
    /\ LET p == Row(id)
           f == IF data.sku = Absent THEN [ok |-> TRUE, value |-> p.sku]
                ELSE SkuField(data.sku, id)
       IN  IF ~f.ok
           THEN Reject("api_update", "ValidationError:sku", id, data.sku)
           ELSE IF ~partial /\ (data.sku = Absent \/ data.name = Absent)
           THEN Reject("api_update", "ValidationError:required", id, data.sku)
           ELSE SaveExisting("api_update", p,
                    IF data.sku = Absent THEN p.sku ELSE strip(lower(f.value)),
                    IF data.name = Absent THEN p.name ELSE data.name,
                    IF data.active = "absent" THEN p.active ELSE data.active = "true")
    /\ UNCHANGED <<cfgVars, jobVars, auxVars>>

\* Product.clean, called by the admin form before it saves
Clean(sku, name) ==
    LET s == IF sku # <<>> THEN strip(lower(sku)) ELSE sku
    IN  [ok |-> s # <<>> /\ name # <<>>, sku |-> s]

\* The admin change form: field cleaning, Product.clean, validate_unique, save
AdminSave(id, rawsku, name, active) ==
    /\ extOps < MaxOps
    /\ id \in Ids
    /\ extOps' = extOps + 1
    /\ LET c == Clean(strip(rawsku), name)
       IN  IF ~c.ok \/ SkuTaken(c.sku, id)
           THEN Reject("admin", "ValidationError:sku", id, rawsku)
           ELSE SaveExisting("admin", Row(id), c.sku, name, active)
    /\ UNCHANGED <<cfgVars, jobVars, auxVars>>

\* DELETE of one product
DeleteProduct(id) ==
    /\ extOps < MaxOps
    /\ id \in Ids
    /\ extOps' = extOps + 1
    /\ products' = products \ {Row(id)}
    /\ response' = Resp("delete", "ok", FALSE, FALSE, id, Absent)
    /\ UNCHANGED <<nextId, clock, submitted, cfgVars, jobVars, auxVars>>

\* WebhookService.trigger_webhook_for_product(product, created)
ServiceTrigger(id, created) ==
    /\ extOps < MaxOps
    /\ id \in Ids
    /\ extOps' = extOps + 1
    /\ LET r == TriggerWebhookForProduct(Row(id), created, clock)
       IN  /\ submitted' = r.jobs
           /\ response' = Resp("service", IF r.raised THEN "EncodeError" ELSE "ok",
                                FALSE, created, id, Absent)
    /\ UNCHANGED <<products, nextId, clock, cfgVars, jobVars, auxVars>>

(***************************************************************************)
(* delete_all (views.py)                                                   *)
(***************************************************************************)
\* values the "confirmed" key of the request body can carry
ConfirmValues ==
    { [type |-> "absent", v |-> 0], [type |-> "null", v |-> 0],
      [type |-> "bool", v |-> 1], [type |-> "bool", v |-> 0],
      [type |-> "number", v |-> 1], [type |-> "number", v |-> 0],
      [type |-> "string", v |-> 0],       \* ""
      [type |-> "string", v |-> 5] }      \* "false"; v is the length of the text

JsonTrue == [type |-> "bool", v |-> 1]

\* Python truth value of request.data.get('confirmed')
Truthy(c) ==
    CASE c.type \in {"absent", "null"} -> FALSE
      [] OTHER -> c.v # 0

\* delete_all_products
DeleteAll(confirmed) ==
    /\ extOps < MaxOps
    /\ extOps' = extOps + 1
    /\ IF ~Truthy(confirmed)
       THEN /\ response' = Resp("delete_all", "CONFIRMATION_REQUIRED", FALSE, FALSE, 0,
                                 Absent)
            /\ UNCHANGED products
       ELSE /\ response' = Resp("delete_all", "ok", FALSE, FALSE, 0, Absent)
            /\ products' = {}
    /\ UNCHANGED <<nextId, clock, submitted, cfgVars, jobVars, auxVars>>

(***************************************************************************)
(* Table "webhooks" (models.py), WebhookSerializer, the webhook views and  *)
(* the admin form                                                          *)
(***************************************************************************)
Urls == {"u1", "u2"}
EventTypes == {"product.created", "product.updated"}

\* a key the request body does not carry (text fields)
Missing == "absent"

\* the arrays a body may carry under the key event_types
EventTypeArrays ==
    {<<"product.created">>, <<"product.updated", "product.created">>}

\* request bodies of the webhook endpoints (JSON); WebhookSerializer declares
\* no field event_types, so the key is never read
WebhookData ==
    [url : Urls \cup {Missing}, event_type : EventTypes \cup {Missing},
     is_active : {"true", "false", "absent"}, event_types : {Absent}]
    \cup [url : {"u1"}, event_type : {"product.updated", Missing},
          is_active : {"absent"}, event_types : EventTypeArrays]

WebhookIds == { w.id : w \in webhooks }

WebhookRow(id) == CHOOSE w \in webhooks : w.id = id

\* unique_together = ['url', 'event_type']: another row holds the pair
PairTakenAmongActive(url, event_type, selfId) ==
    \E w \in webhooks :
        w.url = url /\ w.event_type = event_type /\ w.id # selfId /\ w.is_active

PairTaken(url, event_type, selfId) ==
    \E w \in webhooks : w.url = url /\ w.event_type = event_type /\ w.id # selfId

\* the validator the serializer derives from unique_together; on an update the
\* fields the body leaves out are read from the instance
UniqueTogetherValidatorOff(url, event_type, instance) == TRUE

UniqueTogetherValidator(url, event_type, instance) ==
    LET u == IF url = Missing THEN WebhookRow(instance).url ELSE url
        e == IF event_type = Missing THEN WebhookRow(instance).event_type ELSE event_type
    IN  ~\E w \in webhooks : w.url = u /\ w.event_type = e /\ w.id # instance

\* WebhookSerializer.validate: looks only when the body carries both fields
WebhookValidate(url, event_type, instance) ==
    IF url # Missing /\ event_type # Missing
    THEN ~\E w \in webhooks : w.url = url /\ w.event_type = event_type /\ w.id # instance
    ELSE TRUE

WebhookReject(op, outcome, id) ==
    /\ response' = Resp(op, outcome, FALSE, FALSE, id, Absent)
    /\ UNCHANGED <<webhooks, nextWebhookId>>

\* INSERT into "webhooks"
WebhookInsert(op, url, event_type, is_active) ==
    IF PairTaken(url, event_type, 0)
    THEN WebhookReject(op, "IntegrityError", 0)
    ELSE /\ webhooks' = webhooks \cup
                { [id |-> nextWebhookId, url |-> url, event_type |-> event_type,
                   is_active |-> is_active] }
         /\ nextWebhookId' = nextWebhookId + 1
         /\ response' = Resp(op, "ok", TRUE, TRUE, nextWebhookId, Absent)

\* UPDATE of one row of "webhooks"
WebhookWrite(op, w, url, event_type, is_active) ==
    IF PairTaken(url, event_type, w.id)
    THEN WebhookReject(op, "IntegrityError", w.id)
    ELSE /\ webhooks' = (webhooks \ {w}) \cup
                { [w EXCEPT !.url = url, !.event_type = event_type,
                            !.is_active = is_active] }
         /\ response' = Resp(op, "ok", TRUE, FALSE, w.id, Absent)
         /\ UNCHANGED nextWebhookId

\* Webhook.objects.create(url=..., event_type=..., is_active=...)
WebhookDirectCreate(url, event_type, is_active) ==
    /\ extOps < MaxOps
    /\ extOps' = extOps + 1
    /\ WebhookInsert("webhook_create", url, event_type, is_active)
    /\ UNCHANGED <<products, nextId, clock, submitted, task_serializer, jobVars, auxVars>>

\* w = Webhook.objects.get(...); w.url = ...; w.save()
WebhookDirectUpdate(id, url, event_type, is_active) ==
    /\ extOps < MaxOps
    /\ id \in WebhookIds
    /\ extOps' = extOps + 1
    /\ WebhookWrite("webhook_save", WebhookRow(id), url, event_type, is_active)
    /\ UNCHANGED <<products, nextId, clock, submitted, task_serializer, jobVars, auxVars>>

\* POST /webhooks/ : WebhookListCreateView with WebhookSerializer
WebhookApiCreate(data) ==
    /\ extOps < MaxOps
    /\ extOps' = extOps + 1
    /\ IF data.url = Missing \/ data.event_type = Missing
       THEN WebhookReject("webhook_api_create", "ValidationError:required", 0)
       ELSE IF ~UniqueTogetherValidator(data.url, data.event_type, 0)
               \/ ~WebhookValidate(data.url, data.event_type, 0)
       THEN WebhookReject("webhook_api_create", "ValidationError:unique", 0)
       ELSE WebhookInsert("webhook_api_create", data.url, data.event_type,
                          data.is_active # "false")
    /\ UNCHANGED <<products, nextId, clock, submitted, task_serializer, jobVars, auxVars>>

\* PUT / PATCH /webhooks/<pk>/ : WebhookDetailView with WebhookSerializer
WebhookApiUpdate(id, data, partial) ==
    /\ extOps < MaxOps
    /\ id \in WebhookIds
    /\ extOps' = extOps + 1
    /\ LET w == WebhookRow(id)
       IN  IF ~partial /\ (data.url = Missing \/ data.event_type = Missing)
           THEN WebhookReject("webhook_api_update", "ValidationError:required", id)
           ELSE IF ~UniqueTogetherValidator(data.url, data.event_type, id)
                   \/ ~WebhookValidate(data.url, data.event_type, id)
           THEN WebhookReject("webhook_api_update", "ValidationError:unique", id)
           ELSE WebhookWrite("webhook_api_update", w,
                    IF data.url = Missing THEN w.url ELSE data.url,
                    IF data.event_type = Missing THEN w.event_type ELSE data.event_type,
                    IF data.is_active = "absent" THEN w.is_active
                    ELSE data.is_active = "true")
    /\ UNCHANGED <<products, nextId, clock, submitted, task_serializer, jobVars, auxVars>>

\* WebhookAdmin add / change form: validate_unique of the model form, then save;
\* id is 0 for the add form
WebhookAdminSave(id, url, event_type, is_active) ==
    /\ extOps < MaxOps
    /\ id \in WebhookIds \cup {0}
    /\ extOps' = extOps + 1
    /\ IF PairTaken(url, event_type, id)
       THEN WebhookReject("webhook_admin", "ValidationError:unique", id)
       ELSE IF id = 0
       THEN WebhookInsert("webhook_admin", url, event_type, is_active)
       ELSE WebhookWrite("webhook_admin", WebhookRow(id), url, event_type, is_active)
    /\ UNCHANGED <<products, nextId, clock, submitted, task_serializer, jobVars, auxVars>>

\* DELETE /webhooks/<pk>/
WebhookDelete(id) ==
    /\ extOps < MaxOps
    /\ id \in WebhookIds
    /\ extOps' = extOps + 1
    /\ webhooks' = webhooks \ {WebhookRow(id)}
    /\ response' = Resp("webhook_delete", "ok", FALSE, FALSE, id, Absent)
    /\ UNCHANGED <<nextWebhookId, products, nextId, clock, submitted, task_serializer,
                   jobVars, auxVars>>

(***************************************************************************)
(* CSV files                                                               *)
(***************************************************************************)
Min(a, b) == IF a < b THEN a ELSE b

SeqsUpTo(S, n) == UNION { [1..k -> S] : k \in 0..n }

\* header lines as written in the file
Headers ==
    { {"SKU", "name", "description", "active"},
      {"sku", "name"},
      {"sku", "description", "active"} }

\* chunk_df.columns.str.lower()
ColumnLower(c) == IF c = "SKU" THEN "sku" ELSE c

LowerColumns(header) == { ColumnLower(c) : c \in header }

TrueText == <<"t", "r", "u", "e">>

\* data lines: a new SKU, the same SKU in another spelling, a blank SKU, another SKU
RowPool ==
    { [sku |-> <<"A">>, name |-> <<"n">>, description |-> <<>>, active |-> <<>>],
      [sku |-> <<" ", "a">>, name |-> <<"m", " ">>, description |-> <<"d">>,
       active |-> <<"n", "o">>],
      [sku |-> <<" ">>, name |-> <<"n">>, description |-> <<>>, active |-> <<>>],
      [sku |-> <<"b", " ">>, name |-> <<"n">>, description |-> <<"d", " ">>,
       active |-> <<"T", "R", "U", "E", " ">>] }

\* a data line under a header: one cell per column of the header
Project(r, header) == [c \in LowerColumns(header) |-> r[c]]

CsvFiles ==
    UNION { { [kind |-> "csv", header |-> h, rows |-> rs, lines |-> 1 + Len(rs)] :
              rs \in SeqsUpTo({ Project(r, h) : r \in RowPool }, MaxRows) } :
            h \in Headers }

\* a path with no file, a path that cannot be opened, a zero-byte file, and text
\* files the CSV parser refuses
OtherFiles ==
    { [kind |-> k, header |-> {}, rows |-> <<>>, lines |-> 0] :
        k \in {"missing", "unreadable", "empty"} }
    \cup { [kind |-> "garbled", header |-> {}, rows |-> <<>>, lines |-> n] :
             n \in 1..(MaxRows + 1) }

Files == CsvFiles \cup OtherFiles

(***************************************************************************)
(* import_products_task (tasks.py)                                         *)
(***************************************************************************)
NoChunk == [n |-> 0, to_create |-> <<>>, to_update |-> <<>>, snapshot |-> {},
            created |-> 0, updated |-> 0]

NoResults == [total_rows |-> 0, created |-> 0, updated |-> 0, errors |-> <<>>]

\* cache.set(PROGRESS_KEY.format(task_id), value, CACHE_TIMEOUT)
CacheSet(value) ==
    /\ cache' = <<value>>
    /\ progressLog' = Append(progressLog, value)

\* _error_result, returned by the task
ErrorResult(message) ==
    /\ CacheSet(-1)
    /\ results' = [total_rows |-> 0, created |-> 0, updated |-> 0, errors |-> <<message>>]
    /\ pc' = "done"
    /\ taskState' = "SUCCESS"

\* line 26: cache.set(..., 0, ...)
Begin ==
    /\ pc = "queued"
    /\ CacheSet(0)
    /\ pc' = "count"
    /\ taskState' = "STARTED"
    /\ UNCHANGED <<file, onDisk, row_count, processed, results, chunk>>
    /\ UNCHANGED <<prodVars, cfgVars, auxVars>>

\* lines 28-41: existence check, line count, empty check
CountRows ==
    /\ pc = "count"
    /\ IF ~onDisk
       THEN ErrorResult("File not found") /\ UNCHANGED row_count
       ELSE IF file.kind = "unreadable"
       THEN ErrorResult("Failed to read file") /\ UNCHANGED row_count
       ELSE /\ row_count' = file.lines - 1
            /\ IF file.lines - 1 <= 0
               THEN ErrorResult("CSV file is empty")
               ELSE /\ results' = [NoResults EXCEPT !.total_rows = file.lines - 1]
                    /\ pc' = "read"
                    /\ UNCHANGED <<cache, progressLog, taskState>>
    /\ UNCHANGED <<file, onDisk, processed, chunk>>
    /\ UNCHANGED <<prodVars, cfgVars, auxVars>>

\* chunk_df["sku"].str.strip().str.lower()
CleanSku(sku) == lower(strip(sku))

\* _process_chunk lines 86-88: clean the SKUs and drop the rows left blank
RECURSIVE CleanRows(_)
CleanRows(rows) ==
    IF rows = <<>> THEN <<>>
    ELSE LET r == [Head(rows) EXCEPT !.sku = CleanSku(@)]
         IN  IF r.sku = <<>> THEN CleanRows(Tail(rows))
             ELSE <<r>> \o CleanRows(Tail(rows))

RECURSIVE SelectRows(_, _, _)
SelectRows(rows, skus, keepIn) ==
    IF rows = <<>> THEN <<>>
    ELSE IF (Head(rows).sku \in skus) = keepIn
         THEN <<Head(rows)>> \o SelectRows(Tail(rows), skus, keepIn)
         ELSE SelectRows(Tail(rows), skus, keepIn)

SkusOf(rows) == { rows[i].sku : i \in 1..Len(rows) }

\* Product.objects.filter(sku__in=chunk_skus).values_list("sku", flat=True)
ExistingSkus(table, rows) == { p.sku : p \in { q \in table : q.sku \in SkusOf(rows) } }

\* lines 59-62: the except branch of the chunk loop
ChunkFailedSkipsFinish(message) ==
    /\ results' = [results EXCEPT !.errors = Append(@, message)]
    /\ pc' = "cleanup"
    /\ chunk' = NoChunk

ChunkFailed(message) ==
    /\ results' = [results EXCEPT !.errors = Append(@, message)]
    /\ pc' = "finish"
    /\ chunk' = NoChunk

\* the next chunk from pd.read_csv, then _process_chunk up to its lookup of
\* existing SKUs (lines 43-50, 80-100)
ReadChunk ==
    /\ pc = "read"
    /\ IF file.kind = "garbled"
       THEN /\ pc' = "raised"
            /\ taskState' = "FAILURE"
            /\ UNCHANGED <<results, chunk>>
       ELSE /\ UNCHANGED taskState
            /\ IF processed >= Len(file.rows)
               THEN pc' = "finish" /\ UNCHANGED <<results, chunk>>
               ELSE LET raw == SubSeq(file.rows, processed + 1,
                                      Min(processed + CHUNK_SIZE, Len(file.rows)))
                        rows == CleanRows(raw)
                        existing_skus == ExistingSkus(products, rows)
                        to_create == SelectRows(rows, existing_skus, FALSE)
                        to_update == SelectRows(rows, existing_skus, TRUE)
                    IN  IF {"sku", "name"} \ LowerColumns(file.header) # {}
                        THEN ChunkFailed("Missing required columns")
                        ELSE /\ chunk' = [NoChunk EXCEPT !.n = Len(raw),
                                             !.to_create = to_create,
                                             !.to_update = to_update]
                             /\ pc' = IF to_create # <<>> THEN "create"
                                      ELSE IF to_update # <<>> THEN "update_lookup"
                                      ELSE "progress"
                             /\ UNCHANGED results
    /\ UNCHANGED <<file, onDisk, cache, progressLog, row_count, processed>>
    /\ UNCHANGED <<prodVars, cfgVars, auxVars>>

\* df["active"] after lines 111-112 and 121-122
ActiveOf(r) ==
    LET text == IF "active" \in DOMAIN r THEN r.active ELSE TrueText
        a == lower(strip(text))
    IN  (IF a = <<>> THEN TrueText ELSE a) = TrueText

\* df["description"] after lines 117-118
DescriptionOf(r) == IF strip(r.description) = <<>> THEN None ELSE strip(r.description)

\* bulk_create(products, ignore_conflicts=True): a row whose sku is taken is skipped
RECURSIVE BulkInsertNoConflictClause(_, _, _, _)
BulkInsertNoConflictClause(table, rows, id, now) ==
    IF rows = <<>> THEN [table |-> table, nextId |-> id]
    ELSE LET r == Head(rows)
             row == [id |-> id, sku |-> r.sku, name |-> strip(r.name),
                     description |-> DescriptionOf(r), active |-> ActiveOf(r),
                     created_at |-> now, updated_at |-> now]
         IN  BulkInsertNoConflictClause(table \cup {row}, Tail(rows), id + 1, now)

RECURSIVE BulkInsert(_, _, _, _)
BulkInsert(table, rows, id, now) ==
    IF rows = <<>> THEN [table |-> table, nextId |-> id]
    ELSE LET r == Head(rows)
             row == [id |-> id, sku |-> r.sku, name |-> strip(r.name),
                     description |-> DescriptionOf(r), active |-> ActiveOf(r),
                     created_at |-> now, updated_at |-> now]
         IN  IF \E p \in table : p.sku = r.sku
             THEN BulkInsert(table, Tail(rows), id, now)
             ELSE BulkInsert(table \cup {row}, Tail(rows), id + 1, now)

\* _bulk_create: "return len(created)", the list bulk_create was given
CreatedCount(rows) == Len(rows)

\* _bulk_create (lines 108-137)
BulkCreateThenDispatch ==
    /\ pc = "create"
    /\ IF "description" \notin LowerColumns(file.header)
       THEN /\ ChunkFailed("KeyError: 'description'")
            /\ UNCHANGED <<products, nextId, clock, submitted>>
       ELSE LET r == BulkInsert(products, chunk.to_create, nextId, clock + 1)
            IN  /\ products' = r.table
                /\ nextId' = r.nextId
                /\ clock' = clock + 1
                /\ submitted' = UNION { TriggerWebhookForProduct(p, TRUE, clock + 1).jobs :
                                          p \in r.table \ products }
                /\ chunk' = [chunk EXCEPT !.created = CreatedCount(chunk.to_create),
                                          !.to_create = <<>>]
                /\ pc' = IF chunk.to_update # <<>> THEN "update_lookup" ELSE "progress"
                /\ UNCHANGED results
    /\ UNCHANGED <<file, onDisk, taskState, cache, progressLog, row_count, processed>>
    /\ UNCHANGED <<response, extOps, cfgVars, auxVars>>

BulkCreate ==
    /\ pc = "create"
    /\ IF "description" \notin LowerColumns(file.header)
       THEN /\ ChunkFailed("KeyError: 'description'")
            /\ UNCHANGED <<products, nextId, clock>>
       ELSE LET r == BulkInsert(products, chunk.to_create, nextId, clock + 1)
            IN  /\ products' = r.table
                /\ nextId' = r.nextId
                /\ clock' = clock + 1
                /\ chunk' = [chunk EXCEPT !.created = CreatedCount(chunk.to_create),
                                          !.to_create = <<>>]
                /\ pc' = IF chunk.to_update # <<>> THEN "update_lookup" ELSE "progress"
                /\ UNCHANGED results
    /\ UNCHANGED <<file, onDisk, taskState, cache, progressLog, row_count, processed>>
    /\ UNCHANGED <<submitted, response, extOps, cfgVars, auxVars>>

\* _bulk_update lines 140-157: prepare the frame, read the stored products
UpdateLookup ==
    /\ pc = "update_lookup"
    /\ IF "description" \notin LowerColumns(file.header)
       THEN ChunkFailed("KeyError: 'description'")
       ELSE /\ chunk' = [chunk EXCEPT !.snapshot =
                            { p \in products : p.sku \in SkusOf(chunk.to_update) }]
            /\ pc' = "update"
            /\ UNCHANGED results
    /\ UNCHANGED <<file, onDisk, taskState, cache, progressLog, row_count, processed>>
    /\ UNCHANGED <<prodVars, cfgVars, auxVars>>

\* the last row of the frame for a sku: its values are the ones left on the object
LastRow(rows, sku) ==
    rows[CHOOSE i \in 1..Len(rows) :
            /\ rows[i].sku = sku
            /\ \A j \in (i + 1)..Len(rows) : rows[j].sku # sku]

\* bulk_update(to_update, ["name", "description", "active"]): UPDATE by primary key
BulkUpdateTableAllFields(table, rows, snapshot) ==
    { IF \E q \in snapshot : q.id = p.id
      THEN LET q == CHOOSE q \in snapshot : q.id = p.id
               r == LastRow(rows, q.sku)
           IN  [q EXCEPT !.name = strip(r.name), !.description = DescriptionOf(r),
                         !.active = ActiveOf(r)]
      ELSE p : p \in table }

BulkUpdateTable(table, rows, snapshot) ==
    { IF \E q \in snapshot : q.id = p.id
      THEN LET q == CHOOSE q \in snapshot : q.id = p.id
               r == LastRow(rows, q.sku)
           IN  [p EXCEPT !.name = strip(r.name), !.description = DescriptionOf(r),
                         !.active = ActiveOf(r)]
      ELSE p : p \in table }

\* len(to_update): one entry per row of the frame whose sku was found
UpdatedCount(rows, snapshot) ==
    Cardinality({ i \in 1..Len(rows) : \E q \in snapshot : q.sku = rows[i].sku })

\* _bulk_update lines 159-171
BulkUpdate ==
    /\ pc = "update"
    /\ products' = BulkUpdateTable(products, chunk.to_update, chunk.snapshot)
    /\ clock' = clock + 1
    /\ chunk' = [chunk EXCEPT !.updated = UpdatedCount(chunk.to_update, chunk.snapshot),
                              !.to_update = <<>>, !.snapshot = {}]
    /\ pc' = "progress"
    /\ UNCHANGED <<file, onDisk, taskState, cache, progressLog, row_count, processed,
                   results>>
    /\ UNCHANGED <<nextId, submitted, response, extOps, cfgVars, auxVars>>

\* min(int((processed / row_count) * 100), 99)
ProgressRemaining(done, total) == Min(((total - done) * 100) \div total, 99)

ProgressUncapped(done, total) == (done * 100) \div total

Progress(done, total) == Min((done * 100) \div total, 99)

\* lines 51-57: add the chunk's counts, record the progress
SetProgress ==
    /\ pc = "progress"
    /\ results' = [results EXCEPT !.created = @ + chunk.created,
                                  !.updated = @ + chunk.updated]
    /\ processed' = processed + chunk.n
    /\ CacheSet(Progress(processed + chunk.n, row_count))
    /\ chunk' = NoChunk
    /\ pc' = "read"
    /\ UNCHANGED <<file, onDisk, taskState, row_count>>
    /\ UNCHANGED <<prodVars, cfgVars, auxVars>>

\* line 64: cache.set(..., 100, ...)
Finish ==
    /\ pc = "finish"
    /\ CacheSet(100)
    /\ pc' = "cleanup"
    /\ UNCHANGED <<file, onDisk, taskState, row_count, processed, results, chunk>>
    /\ UNCHANGED <<prodVars, cfgVars, auxVars>>

\* lines 67-74: remove the file (a failure to remove it is only logged), return
Cleanup(removed) ==
    /\ pc = "cleanup"
    /\ onDisk' = (onDisk /\ ~removed)
    /\ pc' = "done"
    /\ taskState' = "SUCCESS"
    /\ UNCHANGED <<file, cache, progressLog, row_count, processed, results, chunk>>
    /\ UNCHANGED <<prodVars, cfgVars, auxVars>>

JobStep ==
    \/ Begin
    \/ CountRows
    \/ ReadChunk
    \/ BulkCreate
    \/ UpdateLookup
    \/ BulkUpdate
    \/ SetProgress
    \/ Finish
    \/ \E removed \in BOOLEAN : Cleanup(removed)

(***************************************************************************)
(* Specification of the product write paths                                *)
(***************************************************************************)
\* webhook tables the hook can meet; (url, event_type) is unique in each, and
\* each leaves one event without an active subscription
WebhookTables ==
    { { [id |-> 1, url |-> "u1", event_type |-> "product.created", is_active |-> TRUE],
        [id |-> 2, url |-> "u1", event_type |-> "product.updated", is_active |-> FALSE] },
      { [id |-> 1, url |-> "u1", event_type |-> "product.updated", is_active |-> TRUE],
        [id |-> 2, url |-> "u2", event_type |-> "product.updated", is_active |-> TRUE] } }

NoResponse == Resp("none", "none", FALSE, FALSE, 0, Absent)

\* the task queue's serializer is a setting of the deployment; JSON is its default
TaskSerializers == {"json", "pickle"}

NoStatus == [code |-> 0, progress |-> 0, status |-> "none"]

NoDelivery == [state |-> "none"]

NoAux ==
    /\ nextWebhookId = Cardinality(webhooks) + 1
    /\ statusResp = NoStatus
    /\ delivery = NoDelivery
    /\ cli = "none"

NoJob ==
    /\ file = [kind |-> "missing", header |-> {}, rows |-> <<>>, lines |-> 0]
    /\ onDisk = FALSE
    /\ pc = "idle"
    /\ taskState = "PENDING"
    /\ cache = <<>>
    /\ progressLog = <<>>
    /\ row_count = 0
    /\ processed = 0
    /\ results = NoResults
    /\ chunk = NoChunk

Init ==
    /\ products = {}
    /\ nextId = 1
    /\ clock = 0
    /\ webhooks \in WebhookTables
    /\ task_serializer \in TaskSerializers
    /\ submitted = {}
    /\ response = NoResponse
    /\ extOps = 0
    /\ NoJob
    /\ NoAux

Request ==
    \/ \E s \in RawSkus, n \in Names : DirectCreate(s, n)
    \/ \E id \in Ids, s \in RawSkus, n \in Names, a \in BOOLEAN : DirectUpdate(id, s, n, a)
    \/ \E d \in ApiData : ApiCreate(d)
    \/ \E id \in Ids, d \in ApiData, partial \in BOOLEAN : ApiUpdate(id, d, partial)
    \/ \E id \in Ids, s \in RawSkus, n \in Names, a \in BOOLEAN : AdminSave(id, s, n, a)
    \/ \E id \in Ids : DeleteProduct(id)
    \/ \E id \in Ids, created \in BOOLEAN : ServiceTrigger(id, created)
    \/ \E c \in ConfirmValues : DeleteAll(c)

Next == Request

Spec == Init /\ [][Next]_vars

(***************************************************************************)
(* Specification of an ingestion job                                       *)
(***************************************************************************)
\* tables the job can find when it starts
SeedTables ==
    { {},
      { [id |-> 1, sku |-> <<"a">>, name |-> <<"n">>, description |-> None,
         active |-> TRUE, created_at |-> 1, updated_at |-> 1] } }

\* a job is queued with file f while the table holds the rows of table
Queued(table, f) ==
    /\ products = table
    /\ nextId = Cardinality(table) + 1
    /\ clock = Cardinality(table)
    /\ submitted = {}
    /\ response = NoResponse
    /\ file = f
    /\ onDisk = (file.kind # "missing")
    /\ pc = "queued"
    /\ taskState = "PENDING"
    /\ cache = <<>>
    /\ progressLog = <<>>
    /\ row_count = 0
    /\ processed = 0
    /\ results = NoResults
    /\ chunk = NoChunk

ImportInit ==
    /\ \E table \in SeedTables, f \in Files : Queued(table, f)
    /\ webhooks = {}
    /\ task_serializer = "json"
    /\ extOps = MaxOps
    /\ NoAux

ImportNext == JobStep

SpecImport == ImportInit /\ [][ImportNext]_vars

\* the worker runs a job it has started to its end: every step of the task
\* that can be taken is taken
SpecImportLive == ImportInit /\ [][ImportNext]_vars /\ WF_vars(ImportNext)

(***************************************************************************)
(* Specification of an ingestion job racing with other requests            *)
(***************************************************************************)
FullHeader == {"SKU", "name", "description", "active"}

RowA == [sku |-> <<"A">>, name |-> <<"n">>, description |-> <<>>, active |-> <<>>]
RowA2 == [sku |-> <<" ", "a">>, name |-> <<"m", " ">>, description |-> <<"d">>,
          active |-> <<"n", "o">>]
RowB == [sku |-> <<"b", " ">>, name |-> <<"n">>, description |-> <<"d", " ">>,
         active |-> <<"T", "R", "U", "E", " ">>]

RaceFiles ==
    { [kind |-> "csv", header |-> FullHeader, rows |-> <<RowA, RowB, RowA2>>, lines |-> 4],
      [kind |-> "csv", header |-> FullHeader, rows |-> <<RowB, RowA, RowA2, RowB>>,
       lines |-> 5] }

RaceInit ==
    /\ \E f \in RaceFiles : Queued({}, f)
    /\ webhooks \in WebhookTables
    /\ task_serializer = "json"
    /\ extOps = MaxOps - MaxConc
    /\ NoAux

RaceNext == JobStep \/ Request

SpecRace == RaceInit /\ [][RaceNext]_vars

\* the creates and deletes of products by other paths
CreateDeleteRequest ==
    \/ \E s \in RawSkus, n \in Names : DirectCreate(s, n)
    \/ \E d \in ApiData : ApiCreate(d)
    \/ \E id \in Ids : DeleteProduct(id)
    \/ \E c \in ConfirmValues : DeleteAll(c)

CreateDeleteNext == JobStep \/ CreateDeleteRequest

\* a job interleaved with creates and deletes only
SpecCreateDelete == RaceInit /\ [][CreateDeleteNext]_vars

(***************************************************************************)
(* Specification of the webhook table's write paths                        *)
(***************************************************************************)
WebhookInit ==
    /\ products = {}
    /\ nextId = 1
    /\ clock = 0
    /\ webhooks = {}
    /\ task_serializer = "json"
    /\ submitted = {}
    /\ response = NoResponse
    /\ extOps = 0
    /\ NoJob
    /\ NoAux

WebhookNext ==
    \/ \E u \in Urls, e \in EventTypes, a \in BOOLEAN : WebhookDirectCreate(u, e, a)
    \/ \E id \in WebhookIds, u \in Urls, e \in EventTypes, a \in BOOLEAN :
          WebhookDirectUpdate(id, u, e, a)
    \/ \E d \in WebhookData : WebhookApiCreate(d)
    \/ \E id \in WebhookIds, d \in WebhookData, partial \in BOOLEAN :
          WebhookApiUpdate(id, d, partial)
    \/ \E id \in WebhookIds \cup {0}, u \in Urls, e \in EventTypes, a \in BOOLEAN :
          WebhookAdminSave(id, u, e, a)
    \/ \E id \in WebhookIds : WebhookDelete(id)

SpecWebhook == WebhookInit /\ [][WebhookNext]_vars

(***************************************************************************)
(* upload_csv (views.py)                                                   *)
(***************************************************************************)
\* str.endswith
EndsWith(s, suffix) ==
    /\ Len(s) >= Len(suffix)
    /\ SubSeq(s, Len(s) - Len(suffix) + 1, Len(s)) = suffix

DotCsv == <<".", "c", "s", "v">>

\* names of uploaded files
FileNames ==
    { <<"a", ".", "c", "s", "v">>, <<"a", ".", "C", "S", "V">>,
      <<"a", ".", "t", "x", "t">>, <<"c", "s", "v">>,
      <<"a", ".", "c", "s", "v", ".", "t">> }

\* file.name.lower().endswith('.csv')
IsCsvName(name) == EndsWith(lower(name), DotCsv)

\* what a client can attach: the temporary file the view writes always exists
UploadContents == { f \in Files : f.kind \in {"csv", "empty", "garbled"} }

\* multipart bodies of the upload endpoint
UploadRequests ==
    { [attached |-> FALSE, name |-> <<>>, content |-> CHOOSE f \in UploadContents : f.kind = "empty"] }
    \cup [attached : {TRUE}, name : FileNames, content : UploadContents]

\* the answer, with the request it answers
UploadResp(outcome, http, req) ==
    [http |-> http, attached |-> req.attached, name |-> req.name]
        @@ Resp("upload", outcome, FALSE, FALSE, 0, Absent)

\* upload_csv; delayFails: import_products_task.delay raises
UploadCsvKeepsTemp(req, delayFails) ==
    /\ pc = "idle"
    /\ IF ~req.attached
       THEN /\ response' = UploadResp("NO_FILE", 400, req)
            /\ UNCHANGED <<file, onDisk, pc>>
       ELSE IF ~IsCsvName(req.name)
       THEN /\ response' = UploadResp("INVALID_FILE_TYPE", 400, req)
            /\ UNCHANGED <<file, onDisk, pc>>
       ELSE IF delayFails
       THEN /\ response' = UploadResp("TASK_START_FAILED", 500, req)
            /\ onDisk' = TRUE
            /\ UNCHANGED <<file, pc>>
       ELSE /\ response' = UploadResp("ok", 202, req)
            /\ file' = req.content
            /\ onDisk' = TRUE
            /\ pc' = "queued"
    /\ UNCHANGED <<taskState, cache, progressLog, row_count, processed, results, chunk>>
    /\ UNCHANGED <<products, nextId, clock, submitted, extOps, cfgVars, auxVars>>

UploadCsv(req, delayFails) ==
    /\ pc = "idle"
    /\ IF ~req.attached
       THEN /\ response' = UploadResp("NO_FILE", 400, req)
            /\ UNCHANGED <<file, onDisk, pc>>
       ELSE IF ~IsCsvName(req.name)
       THEN /\ response' = UploadResp("INVALID_FILE_TYPE", 400, req)
            /\ UNCHANGED <<file, onDisk, pc>>
       ELSE IF delayFails
       THEN /\ response' = UploadResp("TASK_START_FAILED", 500, req)
            /\ onDisk' = FALSE
            /\ UNCHANGED <<file, pc>>
       ELSE /\ response' = UploadResp("ok", 202, req)
            /\ file' = req.content
            /\ onDisk' = TRUE
            /\ pc' = "queued"
    /\ UNCHANGED <<taskState, cache, progressLog, row_count, processed, results, chunk>>
    /\ UNCHANGED <<products, nextId, clock, submitted, extOps, cfgVars, auxVars>>

UploadInit ==
    /\ products = {}
    /\ nextId = 1
    /\ clock = 0
    /\ webhooks = {}
    /\ task_serializer = "json"
    /\ submitted = {}
    /\ response = NoResponse
    /\ extOps = MaxOps
    /\ NoJob
    /\ NoAux

UploadNext ==
    \/ \E req \in UploadRequests, delayFails \in BOOLEAN : UploadCsv(req, delayFails)
    \/ JobStep

SpecUpload == UploadInit /\ [][UploadNext]_vars

(***************************************************************************)
(* Progress query (tasks.py) and the upload-status endpoint (views.py)     *)
(***************************************************************************)
\* _format_cache_status
FormatCacheStatus(progress) ==
    IF progress = -1 THEN [progress |-> 0, status |-> "error"]
    ELSE IF progress = 100 THEN [progress |-> 100, status |-> "completed"]
    ELSE [progress |-> progress, status |-> "processing"]

\* _get_celery_task_status
GetCeleryTaskStatus(state) ==
    IF state = "SUCCESS" THEN [progress |-> 100, status |-> "completed"]
    ELSE IF state = "FAILURE" THEN [progress |-> 0, status |-> "failed"]
    ELSE [progress |-> 0,
          status |-> IF state \in {"STARTED", "RETRY"} THEN "processing"
                     ELSE IF state = "REVOKED" THEN "failed"
                     ELSE "pending"]

\* get_import_progress; lookupFails: reading the task's state raises
GetImportProgress(entry, state, lookupFails) ==
    IF entry # <<>> THEN FormatCacheStatus(entry[1])
    ELSE IF lookupFails THEN [progress |-> 0, status |-> "error"]
    ELSE GetCeleryTaskStatus(state)

\* upload_status: "500 if status == 'error' else 200 if status == 'completed' else 202"
UploadStatusCode(status) ==
    IF status = "error" THEN 500
    ELSE IF status = "completed" THEN 200
    ELSE 202

\* GET of the upload-status endpoint for the job's id
UploadStatus(lookupFails) ==
    /\ pc # "idle"
    /\ LET info == GetImportProgress(cache, taskState, lookupFails)
       IN  statusResp' = [code |-> UploadStatusCode(info.status),
                          progress |-> info.progress, status |-> info.status]
    /\ UNCHANGED <<prodVars, cfgVars, jobVars, delivery, cli>>

\* GET of the upload-status endpoint for an id no job was submitted under: the
\* cache holds no entry for it and the task queue reports PENDING for any id it
\* has no record of
UploadStatusUnknown(lookupFails) ==
    /\ LET info == GetImportProgress(<<>>, "PENDING", lookupFails)
       IN  statusResp' = [code |-> UploadStatusCode(info.status),
                          progress |-> info.progress, status |-> info.status,
                          known |-> FALSE]
    /\ UNCHANGED <<prodVars, cfgVars, jobVars, delivery, cli>>

\* the entry's CACHE_TIMEOUT elapses
Expire ==
    /\ cache # <<>>
    /\ cache' = <<>>
    /\ UNCHANGED <<file, onDisk, pc, taskState, progressLog, row_count, processed,
                   results, chunk>>
    /\ UNCHANGED <<prodVars, cfgVars, auxVars>>

\* the queued job is cancelled before a worker takes it
Revoke ==
    /\ pc = "queued"
    /\ pc' = "revoked"
    /\ taskState' = "REVOKED"
    /\ UNCHANGED <<file, onDisk, cache, progressLog, row_count, processed, results,
                   chunk>>
    /\ UNCHANGED <<prodVars, cfgVars, auxVars>>

StatusInit ==
    /\ \E f \in Files : Queued({}, f)
    /\ webhooks = {}
    /\ task_serializer = "json"
    /\ extOps = MaxOps
    /\ NoAux

StatusNext ==
    \/ JobStep
    \/ Expire
    \/ Revoke
    \/ \E lookupFails \in BOOLEAN : UploadStatus(lookupFails)
    \/ \E lookupFails \in BOOLEAN : UploadStatusUnknown(lookupFails)

SpecStatus == StatusInit /\ [][StatusNext]_vars

(***************************************************************************)
(* Webhook delivery job trigger_webhook (tasks.py)                         *)
(***************************************************************************)
(* Command._run_async (management/commands/import_csv.py)                  *)
(***************************************************************************)
\* one turn of "while True": resolve the job's status; "completed" and "error"
\* print the final message and leave the loop, anything else draws the bar and
\* sleeps
CliPoll(lookupFails) ==
    /\ cli = "polling"
    /\ LET status == GetImportProgress(cache, taskState, lookupFails).status
       IN  cli' = IF status = "completed" THEN "success"
                  ELSE IF status = "error" THEN "failure"
                  ELSE "polling"
    /\ UNCHANGED <<prodVars, cfgVars, jobVars, statusResp, delivery>>

\* handle() has found the file and _run_async has submitted the job
CliInit ==
    /\ \E f \in Files \ { g \in Files : g.kind = "missing" } : Queued({}, f)
    /\ webhooks = {}
    /\ task_serializer = "json"
    /\ extOps = MaxOps
    /\ nextWebhookId = 1
    /\ statusResp = NoStatus
    /\ delivery = NoDelivery
    /\ cli = "polling"

CliNext ==
    \/ JobStep
    \/ Expire
    \/ Revoke
    \/ \E lookupFails \in BOOLEAN : CliPoll(lookupFails)

\* the worker runs the job to its end and the loop keeps polling; expiry of
\* the entry, cancellation and a failing state lookup may or may not happen
SpecCli ==
    CliInit /\ [][CliNext]_vars /\ WF_vars(JobStep) /\ WF_vars(CliPoll(FALSE))

(***************************************************************************)
\* max_retries=3 of the task decorator
MAX_RETRIES == 3

\* what requests.post(...) followed by raise_for_status() can end in
PostOutcomes == {"2xx", "non2xx", "timeout", "transport"}

\* a worker takes a submitted delivery job
Take(j) ==
    /\ j \in submitted
    /\ delivery.state \in {"none", "returned", "raised"}
    /\ submitted' = submitted \ {j}
    /\ delivery' = [state |-> "running", url |-> j.url, payload |-> j.payload,
                    retries |-> 0, posts |-> 0, success |-> FALSE, error |-> "none"]
    /\ UNCHANGED <<products, nextId, clock, response, extOps, cfgVars, jobVars,
                   statusResp, cli>>

\* one execution of the task body under the autoretry_for=(Exception,) wrapper:
\* a payload json.dumps refuses raises TypeError out of requests.post before
\* anything is sent, which the wrapper turns into a retry while retries are
\* left; a RequestException is caught by the body, which returns a result
Attempt(outcome) ==
    /\ delivery.state = "running"
    /\ delivery' =
         IF ~JsonSerializable(delivery.payload)
         THEN IF delivery.retries < MAX_RETRIES
              THEN [delivery EXCEPT !.retries = @ + 1]
              ELSE [delivery EXCEPT !.state = "raised", !.error = "TypeError"]
         ELSE IF outcome = "2xx"
         THEN [delivery EXCEPT !.state = "returned", !.posts = @ + 1,
                               !.success = TRUE]
         ELSE [delivery EXCEPT !.state = "returned", !.posts = @ + 1,
                               !.success = FALSE, !.error = outcome]
    /\ UNCHANGED <<prodVars, cfgVars, jobVars, statusResp, cli>>

\* a direct call of trigger_webhook(url, payload): the task body runs in the
\* caller; a TypeError from json.dumps is re-raised to the caller
RunTriggerWebhook(payload, outcome) ==
    IF ~JsonSerializable(payload)
    THEN [raised |-> TRUE, success |-> FALSE, error |-> "TypeError"]
    ELSE IF outcome = "2xx"
    THEN [raised |-> FALSE, success |-> TRUE, error |-> "none"]
    ELSE [raised |-> FALSE, success |-> FALSE, error |-> outcome]

TestSku == <<"TEST-SKU-123">>

\* sample_payload of WebhookService.test_webhook
SamplePayload(event_type, now) ==
    [event |-> event_type, sku |-> TestSku, name |-> <<"Test Product">>,
     description |-> <<"This is a test product for webhook validation">>,
     active |-> TRUE, created_at |-> Iso(now), updated_at |-> Iso(now),
     timestamp |-> Iso(now), test |-> TRUE]

\* WebhookService.test_webhook(webhook_url, event_type)
TestWebhookQueued(url, event_type, outcome) ==
    /\ extOps < MaxOps
    /\ extOps' = extOps + 1
    /\ submitted' = submitted \cup
            { [url |-> url, payload |-> SamplePayload(event_type, clock)] }
    /\ response' = Resp("test_webhook", "ok", FALSE, FALSE, 0, TestSku)
    /\ UNCHANGED <<products, nextId, clock, cfgVars, jobVars, auxVars>>

TestWebhook(url, event_type, outcome) ==
    /\ extOps < MaxOps
    /\ extOps' = extOps + 1
    /\ LET payload == SamplePayload(event_type, clock)
           r == RunTriggerWebhook(payload, outcome)
       IN  response' = Resp("test_webhook", IF r.success THEN "ok" ELSE r.error,
                            FALSE, FALSE, 0, payload.sku)
    /\ UNCHANGED <<products, nextId, clock, submitted, cfgVars, jobVars, auxVars>>

DeliveryInit ==
    /\ \E table \in SeedTables :
          /\ products = table
          /\ nextId = Cardinality(table) + 1
          /\ clock = Cardinality(table)
    /\ webhooks \in WebhookTables
    /\ task_serializer \in TaskSerializers
    /\ submitted = {}
    /\ response = NoResponse
    /\ extOps = MaxOps - MaxConc
    /\ NoJob
    /\ NoAux

DeliveryNext ==
    \/ \E s \in RawSkus, n \in Names : DirectCreate(s, n)
    \/ \E id \in Ids, s \in RawSkus, n \in Names, a \in BOOLEAN : DirectUpdate(id, s, n, a)
    \/ \E id \in Ids, created \in BOOLEAN : ServiceTrigger(id, created)
    \/ \E j \in submitted : Take(j)
    \/ \E outcome \in PostOutcomes : Attempt(outcome)
    \/ \E u \in Urls, e \in EventTypes, outcome \in PostOutcomes : TestWebhook(u, e, outcome)

SpecDelivery == DeliveryInit /\ [][DeliveryNext]_vars

(***************************************************************************)
(* Properties                                                              *)
(***************************************************************************)
Normalized(sku) == strip(lower(sku))

SaveOps == {"create", "save", "api_create", "api_update", "admin"}

\* C1: whatever write path stored it (Model.save, the serializer, the admin
\* form, the ingestion job's bulk insert), every stored product's sku equals its
\* own lower-cased, trimmed form.
C1_SkuStoredNormalized == \A p \in products : p.sku = Normalized(p.sku)

\* the ingestion job has inserted rows and a request has then written another row
C1_Witness ==
    /\ pc = "done"
    /\ results.created > 0
    /\ response.saved
    /\ response.sku # Normalized(response.sku)
    /\ \E p, q \in products : p.id = response.id /\ q.id # p.id

\* C2: a create (Model.save of a new instance, or the API create) whose
\* normalised SKU is the sku of a stored product is rejected and leaves the
\* table as it was, with one record of that sku; an API update that sends the
\* record's own (non-blank) SKU gets no SKU error, and one that sends the SKU of
\* another record is rejected and leaves the table as it was.
C2_DuplicateSkuRejected ==
    [][ extOps' = extOps + 1 /\ response'.sku # Absent =>
          LET sku == Normalized(response'.sku)
              holders == { p \in products : p.sku = sku }
          IN  /\ response'.op \in {"create", "api_create"} /\ holders # {} =>
                    /\ ~response'.saved
                    /\ products' = products
                    /\ Cardinality({ p \in products' : p.sku = sku }) = 1
              /\ response'.op = "api_update" /\ sku # <<>>
                   /\ holders = { p \in products : p.id = response'.id } =>
                    response'.outcome # "ValidationError:sku"
              /\ response'.op = "api_update"
                   /\ (\E p \in holders : p.id # response'.id) =>
                    /\ ~response'.saved
                    /\ products' = products
      ]_vars

\* a create was refused because its SKU, in another spelling, is stored
C2_Witness ==
    /\ response.op \in {"create", "api_create"}
    /\ ~response.saved
    /\ response.sku # Normalized(response.sku)
    /\ \E p \in products : p.sku = Normalized(response.sku)

\* C6: after every ordinary save of a product the delivery jobs submitted are
\* exactly one per webhook that is active and subscribed to the save's event
\* (product.created for an INSERT, product.updated otherwise).
C6_OneJobPerMatchingWebhook ==
    response.op \in SaveOps /\ response.saved =>
        LET hooks == ActiveWebhooks(EventType(response.created))
        IN  /\ { j.url : j \in submitted } = { w.url : w \in hooks }
            /\ Cardinality(submitted) = Cardinality(hooks)

\* C7: delete_all deletes only when the body's "confirmed" is JSON true; with
\* the key absent or carrying any other value the answer is
\* CONFIRMATION_REQUIRED and the table is left as it was.
C7_DeleteAllNeedsTrue ==
    [][ \A c \in ConfirmValues \ {JsonTrue} :
            DeleteAll(c) =>
                /\ response'.outcome = "CONFIRMATION_REQUIRED"
                /\ products' = products
      ]_vars

\* C10: every answer of the upload-status endpoint carries 200 exactly when its
\* status is completed, 500 when its status is a failure (error, failed) and 202
\* when its status is processing or pending.
C10_StatusCodeFollowsStatus ==
    statusResp # NoStatus =>
        /\ (statusResp.code = 200) = (statusResp.status = "completed")
        /\ statusResp.status \in {"error", "failed"} => statusResp.code = 500
        /\ statusResp.status \in {"processing", "pending"} => statusResp.code = 202

\* a file with at least one data line that can be counted
HasDataRow(f) == f.kind \in {"csv", "garbled"} /\ f.lines >= 2

\* C4: for a job over a file with at least one data row the progress values
\* written start at 0, never decrease, and the last one is 100 when the job has
\* completed.
C4_ProgressStartsAtZeroRisesTo100 ==
    HasDataRow(file) =>
        /\ progressLog # <<>> => progressLog[1] = 0
        /\ \A i, j \in 1..Len(progressLog) : i < j => progressLog[i] <= progressLog[j]
        /\ pc = "done" => progressLog[Len(progressLog)] = 100

\* a job over three data rows in two chunks has completed
C4_Witness ==
    /\ HasDataRow(file)
    /\ pc = "done"
    /\ Len(progressLog) >= 4
    /\ 0 < progressLog[2]
    /\ progressLog[2] < progressLog[3]
    /\ progressLog[3] < 100

\* C8: the job's update of rows whose SKU is stored leaves the number of
\* products as it was, changes no record outside the ones it looked up, and
\* leaves id, sku, created_at and updated_at of every record as they were.
C8_UpdateChangesOnlyNameDescriptionActive ==
    [][ BulkUpdate =>
          /\ Cardinality(products') = Cardinality(products)
          /\ \A p \in products :
                \E q \in products' :
                    /\ q.id = p.id
                    /\ q.sku = p.sku
                    /\ q.created_at = p.created_at
                    /\ q.updated_at = p.updated_at
                    /\ (\A o \in chunk.snapshot : o.id # p.id) => q = p
      ]_vars

\* the job has rewritten name, description and active of a record it had
\* inserted from an earlier chunk
C8_Witness ==
    /\ pc = "progress"
    /\ chunk.updated >= 1
    /\ \E p \in products :
          /\ p.sku = <<"a">>
          /\ p.name = <<"m">>
          /\ p.description = <<"d">>
          /\ ~p.active

\* a path with no file, or a file with no data line
ZeroRows(f) == f.kind = "missing" \/ (f.kind \in {"empty", "csv", "garbled"} /\ f.lines <= 1)

\* C9: for a missing file or a file with no data row the values written are 0
\* then -1 and never one of 1..100, the job writes no product and counts none,
\* and the progress query on the entry answers status failed with progress 0.
C9_ZeroRowFileReportsFailed ==
    ZeroRows(file) =>
        /\ \A i \in 1..Len(progressLog) : progressLog[i] \notin 1..100
        /\ pc = "done" =>
              /\ progressLog = <<0, -1>>
              /\ products = {}
              /\ results.created = 0
              /\ results.updated = 0
              /\ cache # <<>> =>
                    GetImportProgress(cache, taskState, FALSE)
                        = [progress |-> 0, status |-> "failed"]

\* no two rows of "webhooks" hold the same (url, event_type)
WebhookPairsUnique ==
    \A v, w \in webhooks : v.url = w.url /\ v.event_type = w.event_type => v = w

\* C3: in every state no two webhook rows share (url, event_type); a create
\* (direct or through the API) of a pair that is stored is rejected and leaves
\* the table as it was; a create of a pair that is not stored, the same url
\* with the other event type included, adds one row.
C3_WebhookPairUnique ==
    /\ []WebhookPairsUnique
    /\ [][ /\ \A u \in Urls, e \in EventTypes, a \in BOOLEAN :
                WebhookDirectCreate(u, e, a) =>
                    IF PairTaken(u, e, 0)
                    THEN ~response'.saved /\ webhooks' = webhooks
                    ELSE /\ response'.saved
                         /\ Cardinality(webhooks') = Cardinality(webhooks) + 1
           /\ \A d \in WebhookData :
                WebhookApiCreate(d) /\ d.url # Missing /\ d.event_type # Missing =>
                    IF PairTaken(d.url, d.event_type, 0)
                    THEN ~response'.saved /\ webhooks' = webhooks
                    ELSE /\ response'.saved
                         /\ Cardinality(webhooks') = Cardinality(webhooks) + 1
        ]_vars

\* a second create of a stored pair was refused while the same url is stored
\* with both event types
C3_Witness ==
    /\ response.op \in {"webhook_create", "webhook_api_create"}
    /\ ~response.saved
    /\ response.outcome \in {"IntegrityError", "ValidationError:unique"}
    /\ \E v, w \in webhooks : v.url = w.url /\ v.event_type # w.event_type

\* C5: a delivery job that ends in a failure result (timeout, transport error
\* or non-2xx response) has been retried exactly MAX_RETRIES times before.
C5_FailureOnlyAfterThreeRetries ==
    delivery.state = "returned" /\ ~delivery.success =>
        /\ delivery.retries = MAX_RETRIES
        /\ delivery.posts = MAX_RETRIES + 1
        /\ delivery.error \in {"non2xx", "timeout", "transport"}

\* data lines of the file whose SKU is not blank after trimming
ValidRows(f) == CleanRows(f.rows)

\* C11: a row whose SKU is blank after trimming yields no product and is not
\* counted as created or updated, total_rows counts every data line, and the
\* created count of a chunk is the number of new SKUs among its valid rows, each
\* of which is inserted.
C11_BlankSkippedCreatedCountsNewRows ==
    /\ [](file.kind = "csv" =>
            /\ \A p \in products : p.sku # <<>>
            /\ results.created + results.updated <= Len(ValidRows(file))
            /\ pc \in {"read", "done"} /\ Len(file.rows) > 0 =>
                  results.total_rows = Len(file.rows))
    /\ [][ BulkCreate =>
             /\ chunk'.created = Cardinality(SkusOf(chunk.to_create))
             /\ Cardinality(products') = Cardinality(products) + chunk'.created
         ]_vars

\* C12: no step of the ingestion job submits a delivery job or runs the
\* post_save hook, whatever webhooks are stored.
C12_JobSubmitsNoDelivery ==
    [][ JobStep => submitted' = submitted /\ response' = response ]_vars

\* the job has inserted and updated rows while a product.created webhook is active
C12_Witness ==
    /\ pc = "done"
    /\ results.created > 0
    /\ results.updated > 0
    /\ ActiveWebhooks("product.created") # {}
    /\ submitted = {}

\* C13: a webhook create, full update or partial update through the serializer
\* that would leave the record with a (url, event_type) held by another record
\* is answered with a validation error, never with the storage layer's
\* IntegrityError, and leaves the table as it was.
C13_DuplicatePairIsValidationError ==
    [][ /\ \A d \in WebhookData :
             d.url # Missing /\ d.event_type # Missing
                 /\ PairTaken(d.url, d.event_type, 0) /\ WebhookApiCreate(d) =>
                     /\ response'.outcome = "ValidationError:unique"
                     /\ webhooks' = webhooks
        /\ \A id \in WebhookIds, d \in WebhookData, partial \in BOOLEAN :
             LET w == WebhookRow(id)
                 u == IF d.url = Missing THEN w.url ELSE d.url
                 e == IF d.event_type = Missing THEN w.event_type ELSE d.event_type
             IN  PairTaken(u, e, id) /\ WebhookApiUpdate(id, d, partial) =>
                     /\ response'.outcome \in
                            {"ValidationError:unique", "ValidationError:required"}
                     /\ webhooks' = webhooks
      ]_vars

\* an update through the serializer was refused because another record holds
\* the pair
C13_Witness ==
    /\ response.op = "webhook_api_update"
    /\ response.outcome = "ValidationError:unique"
    /\ \E v, w \in webhooks : v.id = response.id /\ w.id # v.id

\* C14: a job over a file whose header is only sku and name completes with no
\* error, and every valid row's SKU is then stored with description absent and
\* active true.
C14_MandatoryColumnsSuffice ==
    file.kind = "csv" /\ LowerColumns(file.header) = {"sku", "name"} /\ pc = "done" =>
        /\ results.errors = <<>>
        /\ \A i \in 1..Len(ValidRows(file)) :
              \E p \in products :
                  /\ p.sku = ValidRows(file)[i].sku
                  /\ p.description = None
                  /\ p.active

\* C15: test dispatch submits no delivery job and starts none on a worker; the
\* payload it sends has sku TEST-SKU-123, and its answer is the outcome of the
\* one POST it made: success for a 2xx response, the error otherwise.
C15_TestDispatchIsInline ==
    [][ \A u \in Urls, e \in EventTypes, o \in PostOutcomes :
            TestWebhook(u, e, o) =>
                /\ submitted' = submitted
                /\ delivery' = delivery
                /\ response'.sku = TestSku
                /\ (response'.outcome = "ok") = (o = "2xx")
                /\ o # "2xx" => response'.outcome = o
      ]_vars

\* a test dispatch has returned the failure of its POST; no job is queued or
\* running
C15_Witness ==
    /\ response.op = "test_webhook"
    /\ response.outcome = "timeout"
    /\ response.sku = TestSku
    /\ submitted = {}
    /\ delivery = NoDelivery

\* C16: the answer to a status query for an id no job was submitted under is
\* a 404 and carries neither status pending nor status processing.
C16_UnknownJobIsNotFound ==
    "known" \in DOMAIN statusResp =>
        /\ statusResp.code = 404
        /\ statusResp.status \notin {"pending", "processing"}

\* C17: an upload submits a job only for an attached file whose name ends in
\* .csv; with no file or another name it is refused, nothing is written and no
\* job is submitted; when the submission fails the answer is a 500 and the
\* temporary file is gone.
C17_UploadSubmitsOnlyCsv ==
    [][ pc = "idle" =>
          LET good == response'.attached /\ EndsWith(lower(response'.name), DotCsv)
          IN  /\ response'.op = "upload"
              /\ pc' = "queued" => good
              /\ ~good =>
                    /\ response'.http = 400
                    /\ pc' = "idle"
                    /\ ~onDisk'
                    /\ file' = file
              /\ good =>
                    \/ /\ response'.http = 202
                       /\ pc' = "queued"
                       /\ onDisk'
                    \/ /\ response'.http = 500
                       /\ pc' = "idle"
                       /\ ~onDisk'
                       /\ file' = file
      ]_vars

\* an upload of a file named in capitals was accepted and its job is queued
C17_Witness ==
    /\ pc = "queued"
    /\ response.op = "upload"
    /\ response.http = 202
    /\ response.name # lower(response.name)
    /\ onDisk
    /\ file.kind = "csv"
    /\ Len(file.rows) > 0

(***************************************************************************)
(* C18: when the body of a webhook create or update carries event_types as *)
(* an array, its first element is the effective event_type: whenever the   *)
(* pair (url, first element) is free, the webhook is stored with that      *)
(* single event type, whatever the body's own event_type key says.         *)
(***************************************************************************)
C18_EventTypesArrayIsAdapted ==
    [][ \A d \in WebhookData :
          d.event_types # Absent =>
            /\ ( /\ d.url # Missing
                 /\ ~PairTaken(d.url, d.event_types[1], 0)
                 /\ WebhookApiCreate(d) )
               => \E w \in webhooks' :
                      /\ w.id = nextWebhookId
                      /\ w.url = d.url
                      /\ w.event_type = d.event_types[1]
            /\ \A id \in WebhookIds, partial \in BOOLEAN :
                 ( /\ d.url # Missing
                   /\ ~PairTaken(d.url, d.event_types[1], id)
                   /\ WebhookApiUpdate(id, d, partial) )
                 => \E w \in webhooks' :
                        /\ w.id = id
                        /\ w.url = d.url
                        /\ w.event_type = d.event_types[1]
      ]_vars

\* the job is inside its loop over the chunks of the file
InChunkLoop == pc \in {"read", "create", "update_lookup", "update", "progress"}

(***************************************************************************)
(* C19: while a job is still inside its loop over the chunks, the progress *)
(* entry of its job id is never 100; when the entry is 100 the job has     *)
(* either processed every data row of the file or aborted with an error.   *)
(***************************************************************************)
C19_No100BeforeLastChunk ==
    /\ InChunkLoop \/ pc \in {"queued", "count", "raised"} => cache # <<100>>
    /\ cache = <<100>> =>
          /\ pc \in {"cleanup", "done"}
          /\ processed >= Len(file.rows) \/ results.errors # <<>>

\* the last of two chunks has been processed and the entry says 99
C19_Witness ==
    /\ pc = "read"
    /\ Len(file.rows) > CHUNK_SIZE
    /\ processed = Len(file.rows)
    /\ cache = <<99>>

(***************************************************************************)
(* C20: every job that starts executing eventually leaves a terminal       *)
(* progress entry, 100 or -1, whatever failure occurs while the file is    *)
(* read, parsed or processed.                                              *)
(***************************************************************************)
C20_StartedJobLeavesTerminalEntry ==
    (pc = "count") ~> (cache \in {<<100>>, <<-1>>})

(***************************************************************************)
(* C21: the created count a job's _bulk_create returns equals the number   *)
(* of product records it actually inserted: a row whose insert is ignored  *)
(* because its SKU is already taken is not counted.                        *)
(***************************************************************************)
C21_CreatedCountsInsertedRows ==
    [][ BulkCreate =>
          chunk'.created = Cardinality(products') - Cardinality(products) ]_vars

(***************************************************************************)
(* C22: a file with a repeated SKU (in one chunk or across chunks) upserts:*)
(* when a job over a file with the sku, name and description columns has   *)
(* completed, it has recorded no error and, for every SKU of the file, the *)
(* product with that SKU carries the values of the last row with that SKU. *)
(***************************************************************************)
C22_RepeatedSkuEndsWithLastRow ==
    ( /\ pc = "done"
      /\ file.kind = "csv"
      /\ {"sku", "name", "description"} \subseteq LowerColumns(file.header)
      /\ results.total_rows > 0 )
    => /\ results.errors = <<>>
       /\ \A sku \in SkusOf(ValidRows(file)) :
            LET r == LastRow(ValidRows(file), sku)
            IN  \E p \in products :
                    /\ p.sku = sku
                    /\ p.name = strip(r.name)
                    /\ p.description = DescriptionOf(r)
                    /\ p.active = ActiveOf(r)

(***************************************************************************)
(* C23: every step that changes a stored product refreshes its updated_at  *)
(* (the new value is later than the old one), an update applied by the CSV *)
(* job included, and no step changes a stored product's created_at.        *)
(***************************************************************************)
C23_UpdatedAtRefreshedOnEveryMutation ==
    [][ \A p \in products, q \in products' :
          p.id = q.id =>
            /\ q.created_at = p.created_at
            /\ q # p => q.updated_at > p.updated_at ]_vars

(***************************************************************************)
(* C24: for every stored product and either event, the payload the save    *)
(* hook builds has the shape and values of the payload the dispatch        *)
(* service builds for one product: the same keys, the same event, sku,     *)
(* name, description, active, created_at and updated_at, and an ISO-8601   *)
(* dispatch timestamp.                                                     *)
(***************************************************************************)
C24_HookPayloadMatchesServicePayload ==
    \A p \in products, created \in BOOLEAN :
        LET hook == PrepareWebhookPayload(p, EventType(created))
            service == ServicePayload(p, EventType(created), clock)
        IN  /\ DOMAIN hook = DOMAIN service
            /\ \A k \in DOMAIN service \ {"timestamp"} : hook[k] = service[k]
            /\ hook.timestamp.kind = "iso8601"
            /\ service.timestamp.kind = "iso8601"

\* the file's header lacks a mandatory column
MissingRequiredColumns(f) ==
    f.kind = "csv" /\ {"sku", "name"} \ LowerColumns(f.header) # {}

(***************************************************************************)
(* C25: a job over a file whose chunks lack the sku or name column writes  *)
(* or undoes nothing in the product table, and when it has completed it    *)
(* has processed no chunk, its error list holds the missing-columns error  *)
(* and its progress entry is 100.                                          *)
(***************************************************************************)
C25_MissingColumnAbortsAt100 ==
    /\ []( MissingRequiredColumns(file) /\ results.total_rows > 0 /\ pc = "done" =>
              /\ results.errors = <<"Missing required columns">>
              /\ processed = 0
              /\ results.created = 0 /\ results.updated = 0
              /\ cache = <<100>> )
    /\ [][ MissingRequiredColumns(file) => products' = products ]_vars

\* a job over a file of two chunks without the name column has completed
\* while the table holds a product
C25_Witness ==
    /\ MissingRequiredColumns(file)
    /\ Len(file.rows) > CHUNK_SIZE
    /\ pc = "done"
    /\ results.errors # <<>>
    /\ cache = <<100>>
    /\ products # {}

(***************************************************************************)
(* C26: whenever a job returns, with any result, its temporary file no     *)
(* longer exists, unless the step that returns is the cleanup whose        *)
(* deletion attempt failed.                                                *)
(***************************************************************************)
C26_ReturnedJobLeavesNoTempFile ==
    [][ pc # "done" /\ pc' = "done" => ~onDisk' \/ pc = "cleanup" ]_vars

\* what a progress query for the job resolves to while lookups succeed
ResolvedStatus == GetImportProgress(cache, taskState, FALSE).status

(***************************************************************************)
(* C27: once the job's resolved status is terminal (completed, or failed   *)
(* through the cache sentinel -1, a task-queue failure or a cancellation)  *)
(* the polling loop of the command ends with its success or failure        *)
(* message.                                                                *)
(***************************************************************************)
C27_CliLoopEndsOnTerminalStatus ==
    (cli = "polling" /\ ResolvedStatus \in {"completed", "error", "failed"})
        ~> (cli \in {"success", "failure"})

(***************************************************************************)
(* C28: when a concurrent writer (another job's insert, an API create)     *)
(* stores a SKU between a job's existence lookup and its insert, the       *)
(* conflict is swallowed: the job never fails and records no error, no two *)
(* products ever share a SKU, and right after the job's insert exactly one *)
(* product exists for every SKU the job set out to create.                 *)
(***************************************************************************)
C28_InsertConflictIsSwallowed ==
    /\ []( /\ results.errors = <<>>
           /\ pc # "raised"
           /\ taskState # "FAILURE"
           /\ \A p, q \in products : p.sku = q.sku => p.id = q.id )
    /\ [][ BulkCreate =>
             /\ pc' \in {"update_lookup", "progress"}
             /\ \A sku \in SkusOf(chunk.to_create) :
                    Cardinality({ p \in products' : p.sku = sku }) = 1 ]_vars

\* the API created product a after the job had looked it up and before the job
\* inserted its chunk; the job has completed without an error
C28_Witness ==
    /\ pc = "done"
    /\ file.rows = <<RowA, RowB, RowA2>>
    /\ results.created = 2
    /\ results.errors = <<>>
    /\ response.op = "api_create"
    /\ response.saved
    /\ \E p \in products : p.id = response.id /\ p.sku = <<"a">>
    /\ Cardinality({ p \in products : p.sku = <<"a">> }) = 1

(***************************************************************************)
(* C29: the progress query is decided by the cache entry whenever one      *)
(* exists (-1: failed with progress 0; 100: completed with progress 100;   *)
(* any other value: processing with that value), whether or not the state  *)
(* lookup would fail; with the entry absent it is decided by the           *)
(* task-queue state (queued: pending/0; started or retrying: processing/0; *)
(* succeeded: completed/100; cancelled or failed: failed), and a failing   *)
(* state lookup gives a failure result with progress 0.                    *)
(***************************************************************************)
C29_QueryMapsCacheThenQueueState ==
    LET r == GetImportProgress(cache, taskState, FALSE)
        e == GetImportProgress(cache, taskState, TRUE)
    IN  /\ cache # <<>> =>
              /\ e = r
              /\ cache = <<-1>> => r = [progress |-> 0, status |-> "failed"]
              /\ cache = <<100>> => r = [progress |-> 100, status |-> "completed"]
              /\ cache[1] \notin {-1, 100} =>
                    r = [progress |-> cache[1], status |-> "processing"]
        /\ cache = <<>> =>
              /\ taskState = "PENDING" => r = [progress |-> 0, status |-> "pending"]
              /\ taskState \in {"STARTED", "RETRY"} =>
                    r = [progress |-> 0, status |-> "processing"]
              /\ taskState = "SUCCESS" => r = [progress |-> 100, status |-> "completed"]
              /\ taskState \in {"REVOKED", "FAILURE"} => r.status = "failed"
              /\ e.progress = 0 /\ e.status \in {"failed", "error"}

\* the job wrote the failure sentinel, raised, or was cancelled
JobFailed ==
    \/ progressLog # <<>> /\ progressLog[Len(progressLog)] = -1
    \/ taskState \in {"FAILURE", "REVOKED"}

(***************************************************************************)
(* C30: once a status query for a job that has failed has reported a       *)
(* failure status, the next status query for that job does not report      *)
(* completed, also when the cache entry has expired in between.            *)
(***************************************************************************)
C30_NoCompletedAfterFailure ==
    [][ ( /\ "known" \notin DOMAIN statusResp
          /\ "known" \notin DOMAIN statusResp'
          /\ JobFailed
          /\ statusResp.status \in {"error", "failed"} )
        => statusResp'.status # "completed" ]_vars

(***************************************************************************)
(* C31: under any interleaving with creates and deletes by other paths, a  *)
(* job that has completed without an error has created + updated equal to  *)
(* the number of rows of the file with a non-blank SKU, and right after    *)
(* each write of a chunk (the insert of its new rows, the update of its    *)
(* known rows) every SKU the write was for is in storage.                  *)
(***************************************************************************)
C31_EveryRowCountedAndStored ==
    /\ []( pc = "done" /\ file.kind = "csv" /\ results.total_rows > 0
             /\ results.errors = <<>> =>
               results.created + results.updated = Len(ValidRows(file)) )
    /\ [][ /\ BulkCreate /\ results'.errors = <<>> =>
                \A sku \in SkusOf(chunk.to_create) : \E p \in products' : p.sku = sku
           /\ BulkUpdate =>
                \A sku \in SkusOf(chunk.to_update) : \E p \in products' : p.sku = sku
         ]_vars

====
